---- MODULE Spec2Model ----
(***************************************************************************)
(* Smart Leave Planner: LeaveOptimizer (src/utils.py).                     *)
(*                                                                         *)
(* A date is an integer: the ordinal of the day counted from January 1 of  *)
(* the optimizer's year (1 = January 1).  Ordinals below 1 are the last    *)
(* days of the previous year, ordinals above DaysInYear the first days of  *)
(* the next one.  A year is given by the weekday of its January 1 and by   *)
(* whether it is a leap year: the 14 kinds of year of the calendar.        *)
(* Weekdays are numbered as datetime.weekday() does: Monday = 0 ...        *)
(* Saturday = 5, Sunday = 6.                                               *)
(***************************************************************************)
EXTENDS Integers, Sequences, FiniteSets, TLC

\* Largest leave budget explored (budgets run from -1 to MaxLeaves).
MaxLeaves == 12
\* Largest number of public holidays in the HolidaySet.
MaxHolidays == 2

\* The cap of the bridge walk: "len(days_before) < 4".
BridgeCap == 4

VARIABLES
    jan1,               \* weekday of January 1 of self.year
    leap,               \* self.year is a leap year
    holidays,           \* self.holidays: the set of holiday dates
    weekends,           \* self.weekends
    pc,                 \* position: "idle", "loop", "done"
    num_leaves,         \* argument of get_optimal_leave_days
    preferred_months,   \* the months in force after the None default
    all_opportunities,  \* the sorted opportunity list
    idx,                \* position of the for loop in all_opportunities
    selected_leaves,
    total_leaves_used,
    total_days_off,
    used_date_ranges,
    outcome             \* how the call ended: "none", "returned", "InvalidBudget"

vars == <<jan1, leap, holidays, weekends, pc, num_leaves, preferred_months,
          all_opportunities, idx, selected_leaves, total_leaves_used,
          total_days_off, used_date_ranges, outcome>>

(***************************************************************************)
(* The calendar (datetime).                                                *)
(***************************************************************************)
DaysInYear == IF leap THEN 366 ELSE 365

start_date == 1
end_date == DaysInYear

\* First ordinal of each month of a non-leap year.
MonthStartTable == <<1, 32, 60, 91, 121, 152, 182, 213, 244, 274, 305, 335>>

MonthStart(m) == MonthStartTable[m] + (IF leap /\ m > 2 THEN 1 ELSE 0)

\* date(year, m, d) as an ordinal.
DateOf(m, d) == MonthStart(m) + d - 1

\* date.weekday()
weekday(d) == (jan1 + d - 1) % 7

\* date.month
month(d) ==
    IF d < 1 THEN 12
    ELSE IF d > DaysInYear THEN 1
    ELSE CHOOSE m \in 1..12 :
            /\ MonthStart(m) <= d
            /\ (m = 12 \/ d < MonthStart(m + 1))

IsWeekend(d) == weekday(d) \in {5, 6}

(***************************************************************************)
(* Floats that are quotients of small integers, kept exact.                *)
(***************************************************************************)
TrueDiv(a, b) == [num |-> a, den |-> b]
EffLess(x, y) == x.num * y.den < y.num * x.den
EffEq(x, y) == x.num * y.den = y.num * x.den

None == [description |-> "None"]

(***************************************************************************)
(* get_weekends                                                            *)
(***************************************************************************)
\* The while loop of lines 20-24 over the dates first..last, split in halves
\* (the loop visits the dates in increasing order; so does this).
RECURSIVE WeekendsBetween(_, _)
WeekendsBetween(first, last) ==
    IF first > last THEN <<>>
    ELSE IF first = last
    THEN (IF weekday(first) \in {5, 6} THEN <<first>> ELSE <<>>)
    ELSE LET mid == (first + last) \div 2
         IN  WeekendsBetween(first, mid) \o WeekendsBetween(mid + 1, last)

\* get_weekends with "current_date < end_date" as the loop test.
get_weekends_excl == WeekendsBetween(start_date, end_date - 1)

get_weekends == WeekendsBetween(start_date, end_date)

(***************************************************************************)
(* analyze_bridge_before / analyze_bridge_after                            *)
(* dir = -1 walks back from the holiday, dir = 1 walks forward.            *)
(***************************************************************************)
\* The bridge walk with "len(days) <= 4" as the cap test.
RECURSIVE BridgeWalkOver(_, _, _)
BridgeWalkOver(current_date, days, dir) ==
    IF weekday(current_date) \notin {5, 6} /\ Len(days) <= BridgeCap
    THEN BridgeWalkOver(current_date + dir, Append(days, current_date), dir)
    ELSE [current_date |-> current_date, days |-> days]

RECURSIVE BridgeWalk(_, _, _)
BridgeWalk(current_date, days, dir) ==
    IF weekday(current_date) \notin {5, 6} /\ Len(days) < BridgeCap
    THEN BridgeWalk(current_date + dir, Append(days, current_date), dir)
    ELSE [current_date |-> current_date, days |-> days]

RECURSIVE WeekendWalk(_, _, _)
WeekendWalk(check_date, weekend_days, dir) ==
    IF weekday(check_date) \in {5, 6}
    THEN WeekendWalk(check_date + dir, Append(weekend_days, check_date), dir)
    ELSE weekend_days

BridgeResult(holiday_date, dir, label) ==
    LET w == BridgeWalk(holiday_date + dir, <<>>, dir)
    IN  IF weekday(w.current_date) \in {5, 6} /\ w.days # <<>>
        THEN LET weekend_days == WeekendWalk(w.current_date, <<>>, dir)
                 total == Len(w.days) + Len(weekend_days) + 1
                 leaves_needed == Len(w.days)
             IN  IF leaves_needed > 0
                 THEN [leave_dates |-> w.days,
                       total_days_off |-> total,
                       leaves_needed |-> leaves_needed,
                       efficiency |-> TrueDiv(total, leaves_needed),
                       description |-> <<label, holiday_date>>]
                 ELSE None
        ELSE None

analyze_bridge_before(holiday_date) == BridgeResult(holiday_date, -1, "Bridge before")

analyze_bridge_after(holiday_date) == BridgeResult(holiday_date, 1, "Bridge after")

(***************************************************************************)
(* find_bridge_opportunities: the holidays are visited in date order.      *)
(***************************************************************************)
RECURSIVE BridgeScan(_, _)
BridgeScan(todo, months) ==
    IF todo = {} THEN <<>>
    ELSE LET holiday_date == CHOOSE h \in todo : \A g \in todo : h <= g
             rest == BridgeScan(todo \ {holiday_date}, months)
         IN  IF month(holiday_date) \notin months
             THEN rest
             ELSE LET before_opportunity == analyze_bridge_before(holiday_date)
                      after_opportunity == analyze_bridge_after(holiday_date)
                  IN  (IF before_opportunity # None THEN <<before_opportunity>> ELSE <<>>)
                      \o (IF after_opportunity # None THEN <<after_opportunity>> ELSE <<>>)
                      \o rest

find_bridge_opportunities(months) == BridgeScan(holidays, months)

(***************************************************************************)
(* find_long_weekend_opportunities                                         *)
(***************************************************************************)
LongWeekendAt(current_date, months) ==
    IF month(current_date) \notin months THEN <<>>
    ELSE IF weekday(current_date) = 4
    THEN LET monday == current_date + 3
         IN  IF /\ monday \notin holidays
                /\ monday <= end_date
                /\ month(monday) \in months
             THEN <<[leave_dates |-> <<monday>>,
                     total_days_off |-> 4,
                     leaves_needed |-> 1,
                     efficiency |-> TrueDiv(4, 1),
                     description |-> <<"Long weekend starting", current_date>>]>>
             ELSE <<>>
    ELSE IF weekday(current_date) = 0
    THEN LET friday == current_date - 3
         IN  IF /\ friday \notin holidays
                /\ friday >= start_date
                /\ month(friday) \in months
             THEN <<[leave_dates |-> <<friday>>,
                     total_days_off |-> 4,
                     leaves_needed |-> 1,
                     efficiency |-> TrueDiv(4, 1),
                     description |-> <<"Long weekend ending", current_date>>]>>
             ELSE <<>>
    ELSE <<>>

\* The while loop of lines 171-206 over the dates first..last, in increasing order.
RECURSIVE LongWeekendScan(_, _, _)
LongWeekendScan(first, last, months) ==
    IF first > last THEN <<>>
    ELSE IF first = last THEN LongWeekendAt(first, months)
    ELSE LET mid == (first + last) \div 2
         IN  LongWeekendScan(first, mid, months) \o LongWeekendScan(mid + 1, last, months)

find_long_weekend_opportunities(months) == LongWeekendScan(start_date, end_date, months)

(***************************************************************************)
(* list.sort(key = efficiency, reverse = True): stable, descending.        *)
(***************************************************************************)
\* The sort without reverse = True: ascending, stable.
RECURSIVE SortAscending(_)
SortAscending(list) ==
    IF list = <<>> THEN <<>>
    ELSE LET keys == {list[k].efficiency : k \in 1..Len(list)}
             least == CHOOSE x \in keys : \A y \in keys : ~EffLess(y, x)
             IsLeast(o) == EffEq(o.efficiency, least)
             NotLeast(o) == ~EffEq(o.efficiency, least)
         IN  SelectSeq(list, IsLeast) \o SortAscending(SelectSeq(list, NotLeast))

\* The elements of greatest efficiency first, in their order in the list, then the
\* rest sorted the same way: equal keys keep their order, as list.sort does.
RECURSIVE SortByEfficiency(_)
SortByEfficiency(list) ==
    IF list = <<>> THEN <<>>
    ELSE LET keys == {list[k].efficiency : k \in 1..Len(list)}
             best == CHOOSE x \in keys : \A y \in keys : ~EffLess(x, y)
             IsBest(o) == EffEq(o.efficiency, best)
             NotBest(o) == ~EffEq(o.efficiency, best)
         IN  SelectSeq(list, IsBest) \o SortByEfficiency(SelectSeq(list, NotBest))

\* Lines 37-46: detection, concatenation and ranking.
RankedOpportunities(months) ==
    SortByEfficiency(find_bridge_opportunities(months)
                        \o find_long_weekend_opportunities(months))

(***************************************************************************)
(* has_date_overlap                                                        *)
(***************************************************************************)
Range(s) == {s[k] : k \in 1..Len(s)}

\* has_date_overlap looking at the most recent range only.
has_date_overlap_last(new_dates, existing_ranges) ==
    /\ existing_ranges # <<>>
    /\ \E a \in 1..Len(new_dates) :
            new_dates[a] \in Range(existing_ranges[Len(existing_ranges)])

has_date_overlap(new_dates, existing_ranges) ==
    \E a \in 1..Len(new_dates) : \E r \in 1..Len(existing_ranges) :
        new_dates[a] \in Range(existing_ranges[r])

\* The budget test without the cost of the new opportunity.
FitsBudgetNoCost(used, needed, budget) == used <= budget

\* The budget test with "<".
FitsBudgetStrict(used, needed, budget) == used + needed < budget

\* Line 57: the budget test.
FitsBudget(used, needed, budget) == used + needed <= budget

(***************************************************************************)
(* The selection loop of get_optimal_leave_days, lines 48-63.              *)
(***************************************************************************)
\* Lines 49-52: the accumulators before the loop.
EmptySelection ==
    [selected_leaves |-> <<>>,
     total_leaves_used |-> 0,
     total_days_off |-> 0,
     used_date_ranges |-> <<>>]

\* Lines 58-63: the opportunity is accepted.
AcceptOpportunity(st, opportunity) ==
    [selected_leaves |-> st.selected_leaves \o opportunity.leave_dates,
     total_leaves_used |-> st.total_leaves_used + opportunity.leaves_needed,
     total_days_off |-> st.total_days_off + opportunity.total_days_off,
     used_date_ranges |-> Append(st.used_date_ranges, opportunity.leave_dates)]

\* Lines 55-63: one iteration of the for loop.
LoopBody(st, opportunity, budget) ==
    IF ~has_date_overlap(opportunity.leave_dates, st.used_date_ranges)
    THEN IF FitsBudget(st.total_leaves_used, opportunity.leaves_needed, budget)
         THEN AcceptOpportunity(st, opportunity)
         ELSE st
    ELSE st

\* The iterations first..last of the for loop, in order, starting from st.
RECURSIVE SelectionLoop(_, _, _, _, _)
SelectionLoop(st, opportunities, first, last, budget) ==
    IF first > last THEN st
    ELSE IF first = last THEN LoopBody(st, opportunities[first], budget)
    ELSE LET mid == (first + last) \div 2
         IN  SelectionLoop(SelectionLoop(st, opportunities, first, mid, budget),
                           opportunities, mid + 1, last, budget)

\* Lines 48-65 as a function of the ranked list and the budget.
Selection(opportunities, budget) ==
    SelectionLoop(EmptySelection, opportunities, 1, Len(opportunities), budget)

\* The accumulators of the call in progress.
Current ==
    [selected_leaves |-> selected_leaves,
     total_leaves_used |-> total_leaves_used,
     total_days_off |-> total_days_off,
     used_date_ranges |-> used_date_ranges]

(***************************************************************************)
(* Inputs.                                                                 *)
(***************************************************************************)
\* Public holidays the HolidaySet is drawn from, as <<month, day>>.
HolidayCandidates == {<<1, 1>>, <<12, 25>>, <<12, 26>>}

\* The preferred_months arguments tried; given = FALSE is None.
NoMonths == [given |-> FALSE, months |-> {}]
MonthChoices == {NoMonths,
                 [given |-> TRUE, months |-> {1}],
                 [given |-> TRUE, months |-> {12}]}

Budgets == (-1)..MaxLeaves

(***************************************************************************)
(* The state machine.                                                      *)
(***************************************************************************)
\* __init__: year, holidays and weekends are fixed at construction.
Init ==
    /\ jan1 \in 0..6
    /\ leap \in BOOLEAN
    /\ \E hs \in SUBSET HolidayCandidates :
            /\ Cardinality(hs) <= MaxHolidays
            /\ holidays = {DateOf(h[1], h[2]) : h \in hs}
    /\ weekends = get_weekends
    /\ pc = "idle"
    /\ num_leaves = 0
    /\ preferred_months = {}
    /\ all_opportunities = <<>>
    /\ idx = 0
    /\ selected_leaves = <<>>
    /\ total_leaves_used = 0
    /\ total_days_off = 0
    /\ used_date_ranges = <<>>
    /\ outcome = "none"

\* get_optimal_leave_days, lines 30-52: up to the selection loop.
Call(n, pm) ==
    /\ pc = "idle"
    /\ pc' = "loop"
    /\ num_leaves' = n
    /\ preferred_months' = IF pm.given THEN pm.months ELSE 1..12
    /\ all_opportunities' = RankedOpportunities(preferred_months')
    /\ idx' = 1
    /\ selected_leaves' = <<>>
    /\ total_leaves_used' = 0
    /\ total_days_off' = 0
    /\ used_date_ranges' = <<>>
    /\ UNCHANGED <<jan1, leap, holidays, weekends, outcome>>

\* One iteration of the for loop (lines 54-63), told apart by its outcome.
Iterate(outcomeOK) ==
    /\ pc = "loop"
    /\ idx <= Len(all_opportunities)
    /\ outcomeOK
    /\ LET st == LoopBody(Current, all_opportunities[idx], num_leaves)
       IN  /\ selected_leaves' = st.selected_leaves
           /\ total_leaves_used' = st.total_leaves_used
           /\ total_days_off' = st.total_days_off
           /\ used_date_ranges' = st.used_date_ranges
    /\ idx' = idx + 1
    /\ UNCHANGED <<jan1, leap, holidays, weekends, pc, num_leaves,
                   preferred_months, all_opportunities, outcome>>

Overlaps == has_date_overlap(all_opportunities[idx].leave_dates, used_date_ranges)
Fits == FitsBudget(total_leaves_used, all_opportunities[idx].leaves_needed, num_leaves)

\* The opportunity is accepted.
Accept == Iterate(~Overlaps /\ Fits)

\* The opportunity shares a date with an accepted one.
SkipOverlap == Iterate(Overlaps)

\* The opportunity does not fit the budget that is left.
SkipBudget == Iterate(~Overlaps /\ ~Fits)

\* Line 65: return selected_leaves, total_days_off, total_leaves_used.
Return ==
    /\ pc = "loop"
    /\ idx > Len(all_opportunities)
    /\ pc' = "done"
    /\ outcome' = "returned"
    /\ UNCHANGED <<jan1, leap, holidays, weekends, num_leaves, preferred_months,
                   all_opportunities, idx, selected_leaves, total_leaves_used,
                   total_days_off, used_date_ranges>>

Next ==
    \/ \E n \in Budgets, pm \in MonthChoices : Call(n, pm)
    \/ Accept
    \/ SkipOverlap
    \/ SkipBudget
    \/ Return

Spec == Init /\ [][Next]_vars

(***************************************************************************)
(* Helpers of the properties.                                              *)
(***************************************************************************)
Opportunities == 1..Len(all_opportunities)

\* The year of a date, relative to the optimizer's year.
yearOf(d) == IF d < 1 THEN -1 ELSE IF d > DaysInYear THEN 1 ELSE 0

\* The budget left.
Remaining == num_leaves - total_leaves_used

\* Opportunity k was accepted by the loop: its iteration changed the accumulators.
AcceptedAt(k) ==
    LET before == SelectionLoop(EmptySelection, all_opportunities, 1, k - 1, num_leaves)
    IN  LoopBody(before, all_opportunities[k], num_leaves) # before

\* A day off for somebody who takes the dates leave: weekend, holiday or leave.
DayOff(d, leave) == IsWeekend(d) \/ d \in holidays \/ d \in leave

\* The last day, walking from d in direction dir, of the run of days off around d.
RECURSIVE RunEnd(_, _, _)
RunEnd(d, leave, dir) ==
    IF DayOff(d + dir, leave) THEN RunEnd(d + dir, leave, dir) ELSE d

\* The length of the break that the leave dates (consecutive days) lie in.
BreakLength(leave_dates) ==
    LET leave == Range(leave_dates)
        lo == CHOOSE d \in leave : \A e \in leave : d <= e
        hi == CHOOSE d \in leave : \A e \in leave : d >= e
    IN  RunEnd(hi, leave, 1) - RunEnd(lo, leave, -1) + 1

\* What the bridge rule says analyze_bridge_before (dir = -1) or
\* analyze_bridge_after (dir = 1) returns for the holiday h.
BridgeRule(h, dir, found) ==
    LET ks == {k \in 1..BridgeCap :
                /\ \A i \in 1..k : ~IsWeekend(h + dir * i)
                /\ IsWeekend(h + dir * (k + 1))}
    IN  IF ks = {} THEN found = None
        ELSE LET k == CHOOSE k \in ks : TRUE
             IN  /\ found # None
                 /\ found.leave_dates = [i \in 1..k |-> h + dir * i]
                 /\ found.leaves_needed = k
                 /\ found.total_days_off = k + 2 + 1
                 /\ EffEq(found.efficiency, TrueDiv(found.total_days_off, found.leaves_needed))

(***************************************************************************)
(* C1: with a budget num_leaves >= 1, after every iteration of the         *)
(* selection loop and in the result, leaves_used <= num_leaves and         *)
(* leaves_used is the number of selected dates.                            *)
(***************************************************************************)
C1_WithinBudget ==
    num_leaves >= 1 =>
        /\ total_leaves_used <= num_leaves
        /\ total_leaves_used = Len(selected_leaves)

\* The budget is used up, a bridge of several days among the accepted opportunities,
\* and some opportunities were not accepted.
C1_Witness ==
    /\ pc = "done"
    /\ num_leaves >= 1
    /\ total_leaves_used = num_leaves
    /\ \E r \in 1..Len(used_date_ranges) : Len(used_date_ranges[r]) >= 2
    /\ Len(all_opportunities) > Len(used_date_ranges)

(***************************************************************************)
(* C2: the leave_dates of the accepted opportunities are pairwise          *)
(* disjoint at every point of the loop, and selected_dates holds no date   *)
(* twice.                                                                  *)
(***************************************************************************)
C2_Disjoint ==
    /\ \A a, b \in 1..Len(used_date_ranges) :
            a # b => Range(used_date_ranges[a]) \cap Range(used_date_ranges[b]) = {}
    /\ \A a, b \in 1..Len(selected_leaves) :
            a # b => selected_leaves[a] # selected_leaves[b]

\* Several opportunities were accepted and one that shares a date with them, without
\* being one of them, was left out.
C2_Witness ==
    /\ pc = "done"
    /\ Len(used_date_ranges) >= 2
    /\ \E k \in Opportunities :
            /\ has_date_overlap(all_opportunities[k].leave_dates, used_date_ranges)
            /\ \A r \in 1..Len(used_date_ranges) :
                    used_date_ranges[r] # all_opportunities[k].leave_dates

(***************************************************************************)
(* C3: for the same year, holidays and preferred months, a budget n1       *)
(* below the budget n2 of the call never yields more total_days_off.       *)
(***************************************************************************)
C3_Monotone ==
    pc = "done" =>
        \A n1 \in Budgets :
            n1 <= num_leaves =>
                Selection(all_opportunities, n1).total_days_off <= total_days_off

\* The larger budget buys a bridge of several days that the budget below it cannot.
C3_Witness ==
    /\ pc = "done"
    /\ num_leaves >= 2
    /\ \E r \in 1..Len(used_date_ranges) : Len(used_date_ranges[r]) >= 2
    /\ Selection(all_opportunities, num_leaves - 1).total_days_off < total_days_off

(***************************************************************************)
(* C4: of the two long-weekend opportunities of one Friday/Monday pair     *)
(* (found from the Friday, found from the following Monday) the selector   *)
(* accepts at most one.                                                    *)
(***************************************************************************)
IsWeekendPair(a, b) ==
    /\ a.description[1] = "Long weekend starting"
    /\ b.description[1] = "Long weekend ending"
    /\ b.description[2] = a.description[2] + 3

C4_AtMostOneOfPair ==
    pc = "done" =>
        \A a, b \in Opportunities :
            IsWeekendPair(all_opportunities[a], all_opportunities[b])
                => ~(AcceptedAt(a) /\ AcceptedAt(b))

(***************************************************************************)
(* C5: a budget num_leaves <= 0 ends in an InvalidBudget error and no      *)
(* opportunities are computed.                                             *)
(***************************************************************************)
C5_InvalidBudgetRejected ==
    (pc # "idle" /\ num_leaves <= 0) =>
        /\ all_opportunities = <<>>
        /\ pc = "done" => outcome = "InvalidBudget"

(***************************************************************************)
(* C6: the list returned by get_weekends has length 104 or 105 (the claim  *)
(* as written), and as amended: 104, 105 or 106, with 106 exactly for a    *)
(* leap year that begins on a Saturday.                                    *)
(***************************************************************************)
C6_Original == Len(weekends) \in {104, 105}

C6_WeekendCount ==
    /\ Len(weekends) \in {104, 105, 106}
    /\ Len(weekends) = 106 <=> (leap /\ jan1 = 5)

\* A leap year that begins on a Saturday: 53 Saturdays and 53 Sundays.
C6_Witness == leap /\ jan1 = 5 /\ Len(weekends) = 106

(***************************************************************************)
(* C7: total_days_off of every emitted opportunity is the length of the    *)
(* run of consecutive days off (weekend, holiday, leave) its leave_dates   *)
(* lie in; a long-weekend opportunity is a break of 4 days.                *)
(***************************************************************************)
C7_TotalIsBreakLength ==
    \A k \in Opportunities :
        all_opportunities[k].total_days_off = BreakLength(all_opportunities[k].leave_dates)

(***************************************************************************)
(* C8: the bridge rule.  For every holiday h and each direction an         *)
(* opportunity is emitted exactly when k weekdays, 1 <= k <= 4, lie        *)
(* between h and a weekend day; then leave_dates are those k days,         *)
(* leaves_needed = k, total_days_off = k + 2 + 1, efficiency their         *)
(* quotient.  A Tuesday holiday gives the before-bridge {Monday}, 1, 4,    *)
(* 4.0.                                                                    *)
(***************************************************************************)
C8_BridgeRule ==
    \A h \in holidays :
        /\ BridgeRule(h, -1, analyze_bridge_before(h))
        /\ BridgeRule(h, 1, analyze_bridge_after(h))
        /\ IsWeekend(h - 1) => analyze_bridge_before(h) = None
        /\ IsWeekend(h + 1) => analyze_bridge_after(h) = None
        /\ weekday(h) = 1 =>
            LET b == analyze_bridge_before(h)
            IN  /\ b # None
                /\ b.leave_dates = <<h - 1>>
                /\ b.leaves_needed = 1
                /\ b.total_days_off = 4
                /\ EffEq(b.efficiency, TrueDiv(4, 1))

\* A Tuesday holiday (bridge of one day before, of three days after) together with a
\* Saturday holiday, whose walk back collects 4 weekdays and stands on a Monday.
C8_Witness ==
    /\ \E h \in holidays :
            /\ weekday(h) = 1
            /\ analyze_bridge_before(h) # None
            /\ analyze_bridge_after(h) # None
    /\ \E g \in holidays :
            /\ weekday(g) = 5
            /\ analyze_bridge_before(g) = None

(***************************************************************************)
(* C9: the loop scans every opportunity, and when it returns no            *)
(* opportunity is both free of accepted dates and within the budget left.  *)
(***************************************************************************)
C9_Maximal ==
    pc = "done" =>
        /\ idx = Len(all_opportunities) + 1
        /\ \A k \in Opportunities :
                \/ has_date_overlap(all_opportunities[k].leave_dates, used_date_ranges)
                \/ all_opportunities[k].leaves_needed > Remaining

\* Budget is left, an opportunity was skipped for costing more than what is left, and
\* an opportunity scanned after it was refused for an overlap.
C9_Witness ==
    /\ pc = "done"
    /\ Remaining >= 1
    /\ total_leaves_used >= 1
    /\ \E k \in Opportunities :
            /\ ~has_date_overlap(all_opportunities[k].leave_dates, used_date_ranges)
            /\ all_opportunities[k].leaves_needed > Remaining
            /\ \E m \in Opportunities :
                    /\ m > k
                    /\ ~AcceptedAt(m)
                    /\ has_date_overlap(all_opportunities[m].leave_dates, used_date_ranges)

(***************************************************************************)
(* C10: every selected date lies in the optimizer's year and in a          *)
(* preferred month.                                                        *)
(***************************************************************************)
C10_InYearAndPreferredMonth ==
    \A k \in 1..Len(selected_leaves) :
        /\ yearOf(selected_leaves[k]) = 0
        /\ month(selected_leaves[k]) \in preferred_months

(***************************************************************************)
(* C11: every selected date is a working day: no Saturday, no Sunday and   *)
(* no public holiday of the HolidaySet, also when two holidays fall on     *)
(* adjacent weekdays.                                                      *)
(***************************************************************************)
C11_SelectedAreWorkingDays ==
    \A k \in 1..Len(selected_leaves) :
        /\ ~IsWeekend(selected_leaves[k])
        /\ selected_leaves[k] \notin holidays

====
